---- MODULE Spec2Model ----
(***************************************************************************)
(* A model of merge_datasets.py: one run of main(), from the reading of    *)
(* the two taxonomy descriptors to the rewrite of data.yaml.               *)
(*                                                                         *)
(* Text is modelled by its tokens.  A file name is a record of its stem    *)
(* (the "_"-separated pieces of the stem) and its extension, so that       *)
(* "new_" + "img_1" and "new_" + "img" + "_" + "1" are the same name.  A    *)
(* label line is the sequence of its whitespace-separated tokens; a label  *)
(* file is a sequence of lines.  A descriptor (data.yaml) is a mapping     *)
(* from keys to values.                                                    *)
(***************************************************************************)
EXTENDS Integers, Sequences, FiniteSets, TLC

\* ------------------------------------------------------------------ bounds
MaxNames == 2
MaxImages == 2
MaxLines == 2

ClassNames == {"cat", "dog", "bird"}

SeqsUpTo(S, n) == UNION {[1..k -> S] : k \in 0..n}

SetsUpTo(S, n) == {T \in SUBSET S : Cardinality(T) <= n}

\* --------------------------------------------------------- python helpers
\* x in s
Contains(s, x) == \E i \in 1..Len(s) : s[i] = x

\* s.index(x): the first position of x, 0-based
IndexOf(s, x) == (CHOOSE i \in 1..Len(s) : s[i] = x /\ \A j \in 1..(i - 1) : s[j] # x) - 1

\* cfg.get(key) or default
GetOr(cfg, key, default) == IF key \in DOMAIN cfg THEN cfg[key] ELSE default

\* d[key] = value on a dict
Put(d, key, value) == [k \in DOMAIN d \cup {key} |-> IF k = key THEN value ELSE d[k]]

\* str(n) for the integers a run can print
Str(n) ==
    CASE n = -2 -> "-2" [] n = -1 -> "-1"
      [] n = 0 -> "0" [] n = 1 -> "1" [] n = 2 -> "2" [] n = 3 -> "3" [] n = 4 -> "4"
      [] n = 5 -> "5" [] n = 6 -> "6" [] n = 7 -> "7" [] n = 8 -> "8" [] n = 9 -> "9"

\* int(text): the value, or a ValueError (ok = FALSE).  "+1" and "01" are
\* accepted by int() and are not what str() prints; "1.0" and "x" are refused.
ParseInt(text) ==
    IF \E n \in -2..9 : Str(n) = text
    THEN [ok |-> TRUE, val |-> CHOOSE n \in -2..9 : Str(n) = text]
    ELSE IF text \in {"+1", "01"} THEN [ok |-> TRUE, val |-> 1]
    ELSE [ok |-> FALSE, val |-> 0]

\* ------------------------------------------------------ taxonomy merging
RECURSIVE MergeInto(_, _)
MergeInto(merged, rest) ==
    IF rest = <<>> THEN merged
    ELSE MergeInto(IF Contains(merged, Head(rest)) THEN merged
                   ELSE Append(merged, Head(rest)),
                   Tail(rest))

MergeNamesNoDedup(mainNames, newNames) == mainNames \o newNames

\* merged_names = list(main_names); append every new name not yet in it
MergeNames(mainNames, newNames) == MergeInto(mainNames, newNames)

NewToMergedOwnIndex(newNames, mergedNames) ==
    [i \in 0..(Len(newNames) - 1) |-> IndexOf(newNames, newNames[i + 1])]

\* {i: merged_names.index(name) for i, name in enumerate(new_names)}
NewToMerged(newNames, mergedNames) ==
    [i \in 0..(Len(newNames) - 1) |-> IndexOf(mergedNames, newNames[i + 1])]

\* ------------------------------------------------------- label remapping
\* A dropped line; an emitted line is never empty.
Drop == <<>>

\* The ValueError of int(parts[0]); an emitted line has at least 5 tokens.
Crash == <<"ValueError">>

IsNonBlank(ln) == ln # <<>>

\* [ln.strip() for ln in f if ln.strip()]
ReadLines(content) == SelectSeq(content, IsNonBlank)

\* One iteration of the planning pass's loop over the lines of a label file.
PlanLine(parts, table, nMerged) ==
    IF Len(parts) < 5 THEN Drop
    ELSE LET p == ParseInt(parts[1]) IN
         IF ~p.ok THEN Drop
         ELSE LET cid == p.val
                  new_cid == IF cid \in DOMAIN table
                             THEN [some |-> TRUE, v |-> table[cid]]
                             ELSE IF cid < nMerged
                                  THEN [some |-> TRUE, v |-> cid]
                                  ELSE [some |-> FALSE, v |-> 0]
              IN IF ~new_cid.some THEN Drop
                 ELSE <<Str(new_cid.v)>> \o Tail(parts)

\* One iteration of apply's loop over the lines of a label file.
ApplyLine(parts, table) ==
    IF Len(parts) < 5 THEN Drop
    ELSE LET p == ParseInt(parts[1]) IN
         IF ~p.ok THEN Crash
         ELSE LET cid == p.val
                  new_cid == IF cid \in DOMAIN table THEN table[cid] ELSE cid
              IN <<Str(new_cid)>> \o Tail(parts)

RECURSIVE RemapPlanFrom(_, _, _, _)
RemapPlanFrom(lines, table, nMerged, remapped) ==
    IF lines = <<>> THEN remapped
    ELSE LET out == PlanLine(Head(lines), table, nMerged) IN
         RemapPlanFrom(Tail(lines), table, nMerged,
                       IF out = Drop THEN remapped ELSE Append(remapped, out))

\* The planning pass over one label file: the list `remapped`.
RemapPlan(content, table, nMerged) ==
    RemapPlanFrom(ReadLines(content), table, nMerged, <<>>)

RECURSIVE RemapApplyFrom(_, _, _)
RemapApplyFrom(lines, table, remapped) ==
    IF lines = <<>> THEN [raised |-> FALSE, lines |-> remapped]
    ELSE LET out == ApplyLine(Head(lines), table) IN
         IF out = Crash THEN [raised |-> TRUE, lines |-> remapped]
         ELSE RemapApplyFrom(Tail(lines), table,
                             IF out = Drop THEN remapped ELSE Append(remapped, out))

\* Apply's pass over one label file: the list `remapped`, or the exception.
RemapApply(content, table) == RemapApplyFrom(ReadLines(content), table, <<>>)

\* ------------------------------------------------------------ file names
ImageExts == {".jpg", ".jpeg", ".png", ".bmp", ".tif", ".tiff"}

\* str.lower() on the extensions a run meets
Lower(ext) == IF ext = ".JPG" THEN ".jpg" ELSE ext

FileName(stem, ext) == [stem |-> stem, ext |-> ext]

Path(dir, name) == [dir |-> dir, name |-> name]

\* Python's None, where a path is expected
None == Path(<<>>, FileName(<<>>, ""))

Subsets == <<"train", "valid", "test">>

MainDir(subset, kind) == <<subset, kind>>

NewDir(subset, kind) == <<"new", subset, kind>>

DataYaml == Path(<<>>, FileName(<<"data">>, ".yaml"))

DataYamlBak == Path(<<>>, FileName(<<"data">>, ".yaml.bak"))

\* fn.lower().endswith(('.jpg', '.jpeg', '.png', '.bmp', '.tif', '.tiff'))
IsImage(fn) == Lower(fn.ext) \in ImageExts

\* list_files: the image files of images_dir
ListFiles(dirs, files, images_dir) ==
    IF images_dir \in dirs
    THEN {p.name : p \in {q \in DOMAIN files : q.dir = images_dir /\ IsImage(q.name)}}
    ELSE {}

\* ensure_dir: os.makedirs(d, exist_ok=True) when d is no directory
EnsureDir(dirs, d) == dirs \cup {d, SubSeq(d, 1, Len(d) - 1)}

\* f'new_{img_name}'
Prefixed(fn) == FileName(<<"new">> \o fn.stem, fn.ext)

\* f'new_{stem}_{k}{ext}'
Suffixed(fn, k) == FileName(<<"new">> \o fn.stem \o <<Str(k)>>, fn.ext)

RECURSIVE UniqueName(_, _, _, _, _)
UniqueName(files, dir, fn, candidate, k) ==
    IF Path(dir, candidate) \in DOMAIN files
    THEN UniqueName(files, dir, fn, Suffixed(fn, k), k + 1)
    ELSE candidate

\* dst_img_name: "new_" + img_name, suffixed while os.path.exists(dst_img)
ResolveDst(files, dir, fn) == UniqueName(files, dir, fn, Prefixed(fn), 1)

\* os.path.splitext(name)[0] + '.txt'
LabelName(fn) == FileName(fn.stem, ".txt")

\* ----------------------------------------------------------- descriptors
ExtraValue(key) ==
    CASE key = "path" -> "../datasets"
      [] key = "train" -> "train/images"
      [] key = "val" -> "valid/images"

\* The content of a data.yaml: nc, names and the other keys.
Descriptor(names, extra) ==
    [k \in {"nc", "names"} \cup extra |->
        IF k = "nc" THEN Len(names)
        ELSE IF k = "names" THEN names
        ELSE ExtraValue(k)]

NoFile == [exists |-> FALSE, map |-> <<>>]

\* load_yaml: yaml.safe_load, or the fallback parser, which keeps nc and names
LoadYaml(file, yamlLib) ==
    IF yamlLib THEN file.map
    ELSE [k \in DOMAIN file.map \cap {"nc", "names"} |-> file.map[k]]

\* What step 3 of apply writes to data.yaml: yaml.dump(new_main_cfg), or the
\* simple writer (train/val/test of main_cfg when present, then nc and names).
DumpYaml(mainCfg, mergedNames, yamlLib) ==
    LET new_main_cfg == Put(Put(mainCfg, "nc", Len(mergedNames)), "names", mergedNames)
    IN IF yamlLib THEN new_main_cfg
       ELSE [k \in (DOMAIN mainCfg \cap {"train", "val", "test"}) \cup {"nc", "names"} |->
                IF k = "nc" THEN Len(mergedNames)
                ELSE IF k = "names" THEN mergedNames
                ELSE mainCfg[k]]

\* ------------------------------------------------------------------ state
VARIABLES
    pc,            \* where main() is: start, plan, backup, apply, done, exit, crashed
    rc,            \* the exit code (0, 2), -1 while running or after an exception
    err,           \* the exception that ended the run, "" when none
    fs,            \* the filesystem under ROOT: dirs, files, data_yaml, data_yaml_bak, new_data_yaml
    fs0,           \* the filesystem when the run started
    dry_run,       \* main's parameter
    yaml,          \* whether `import yaml` succeeded
    main_cfg,      \* load_yaml(main_data_yaml)
    main_names,
    new_names,
    merged_names,
    new_to_merged,
    summary,       \* the counters, by <<subset, "images" | "labels">>
    planned_ops,   \* the tuples (src_img, dst_img, src_lbl, dst_lbl)
    plan_remapped, \* per planned op, the list `remapped` of the planning pass (None: some = FALSE)
    si,            \* the position of `for subset in (...)`
    listing,       \* the names of list_files(...) the inner loop has not visited yet
    oi,            \* the position of apply's loop over planned_ops
    log            \* the writes below ROOT's files that apply has made, in order

vars == <<pc, rc, err, fs, fs0, dry_run, yaml, main_cfg, main_names, new_names,
          merged_names, new_to_merged, summary, planned_ops, plan_remapped,
          si, listing, oi, log>>

\* ----------------------------------------------------------------- inputs
Geometry == <<"0.5", "0.5", "0.1", "0.1">>

\* A label line "<cls> 0.5 0.5 0.1 0.1"
Line(cls) == <<cls>> \o Geometry

Img == FileName(<<"img">>, ".jpg")

Img1 == FileName(<<"img", "1">>, ".jpg")

ImgPng == FileName(<<"img">>, ".png")

ImgUpper == FileName(<<"pic">>, ".JPG")

Notes == FileName(<<"notes">>, ".txt")

\* What the content of an image file is taken to be: its origin.
ImageBytes(fn) == <<<<"image">> \o fn.stem \o <<fn.ext>>>>

\* The content of a file that was in the main dataset before the run.
OldBytes == <<<<"old">>>>

\* One run's inputs: the arguments, the environment and the files under ROOT.
BaseInput ==
    [has_main_yaml |-> TRUE, has_new_dir |-> TRUE, has_new_yaml |-> TRUE,
     main_names |-> <<"cat", "dog">>, new_names |-> <<"dog", "bird">>,
     extra |-> {"path", "train"}, old_bak |-> FALSE,
     yaml_lib |-> TRUE, dry_run |-> FALSE,
     new_splits |-> {"train"},
     main_dirs |-> {MainDir("train", "images"), MainDir("train", "labels")},
     incoming |-> {Img}, labelled |-> {<<"img">>},
     lines |-> <<Line("0")>>,
     dst_images |-> {}, dst_labels |-> {}]

\* The files of the split directories that `in` describes.
InputFiles(in) ==
    LET newImages == IF in.has_new_dir
                     THEN {Path(NewDir(s, "images"), fn) : s \in in.new_splits, fn \in in.incoming}
                     ELSE {}
        newLabels == IF in.has_new_dir
                     THEN {Path(NewDir(s, "labels"), FileName(st, ".txt")) :
                               s \in in.new_splits, st \in in.labelled}
                     ELSE {}
        oldImages == IF MainDir("train", "images") \in in.main_dirs
                     THEN {Path(MainDir("train", "images"), fn) : fn \in in.dst_images}
                     ELSE {}
        oldLabels == IF MainDir("train", "labels") \in in.main_dirs
                     THEN {Path(MainDir("train", "labels"), fn) : fn \in in.dst_labels}
                     ELSE {}
    IN [p \in newImages \cup newLabels \cup oldImages \cup oldLabels |->
           IF p \in newLabels THEN in.lines
           ELSE IF p \in newImages THEN ImageBytes(p.name)
           ELSE OldBytes]

InputDirs(in) ==
    in.main_dirs \cup {<<d[1]>> : d \in in.main_dirs}
    \cup (IF in.has_new_dir
          THEN {<<"new">>} \cup UNION {{<<"new", s>>, NewDir(s, "images"), NewDir(s, "labels")} :
                                          s \in in.new_splits}
          ELSE {})

\* The filesystem under ROOT that `in` describes.
InputFs(in) ==
    [dirs |-> InputDirs(in),
     files |-> InputFiles(in),
     data_yaml |-> IF in.has_main_yaml
                   THEN [exists |-> TRUE, map |-> Descriptor(in.main_names, in.extra)]
                   ELSE NoFile,
     data_yaml_bak |-> IF in.old_bak
                       THEN [exists |-> TRUE, map |-> Descriptor(<<"stale">>, {})]
                       ELSE NoFile,
     new_data_yaml |-> IF in.has_new_dir /\ in.has_new_yaml
                       THEN [exists |-> TRUE, map |-> Descriptor(in.new_names, {})]
                       ELSE NoFile]

\* The state when main(dry_run) is entered with the inputs `in`.
Start(in) ==
    /\ pc = "start"
    /\ rc = -1
    /\ err = ""
    /\ fs = InputFs(in)
    /\ fs0 = InputFs(in)
    /\ dry_run = in.dry_run
    /\ yaml = in.yaml_lib
    /\ main_cfg = <<>>
    /\ main_names = <<>>
    /\ new_names = <<>>
    /\ merged_names = <<>>
    /\ new_to_merged = <<>>
    /\ summary = [k \in {} |-> 0]
    /\ planned_ops = <<>>
    /\ plan_remapped = <<>>
    /\ si = 1
    /\ listing = {}
    /\ oi = 1
    /\ log = <<>>

\* ---------------------------------------------------------------- actions
\* main, lines 86-114: the structural checks, the two descriptors, the merged
\* taxonomy and the remap table.
Load ==
    /\ pc = "start"
    /\ IF ~fs.data_yaml.exists \/ <<"new">> \notin fs.dirs
       THEN /\ pc' = "exit"
            /\ rc' = 2
            /\ UNCHANGED <<main_cfg, main_names, new_names, merged_names, new_to_merged>>
       ELSE LET cfg == LoadYaml(fs.data_yaml, yaml)
                new_cfg == IF fs.new_data_yaml.exists
                           THEN LoadYaml(fs.new_data_yaml, yaml)
                           ELSE <<>>
                mn == GetOr(cfg, "names", <<>>)
                nn == GetOr(new_cfg, "names", <<>>)
                merged == MergeNames(mn, nn)
            IN /\ main_cfg' = cfg
               /\ main_names' = mn
               /\ new_names' = nn
               /\ merged_names' = merged
               /\ new_to_merged' = NewToMerged(nn, merged)
               /\ pc' = "plan"
               /\ rc' = rc
    /\ UNCHANGED <<err, fs, fs0, dry_run, yaml, summary, planned_ops, plan_remapped,
                   si, listing, oi, log>>

\* main, lines 121-133: the next subset; skipped when new/<subset>/images is no
\* directory, else the main directories are made and the images are listed.
PlanSubset ==
    /\ pc = "plan"
    /\ listing = {}
    /\ si <= Len(Subsets)
    /\ LET subset == Subsets[si]
           new_images_dir == NewDir(subset, "images")
       IN IF new_images_dir \notin fs.dirs
          THEN /\ si' = si + 1
               /\ UNCHANGED <<fs, listing>>
          ELSE LET dirs == EnsureDir(EnsureDir(fs.dirs, MainDir(subset, "images")),
                                     MainDir(subset, "labels"))
                   imgs == ListFiles(dirs, fs.files, new_images_dir)
               IN /\ fs' = [fs EXCEPT !.dirs = dirs]
                  /\ listing' = imgs
                  /\ si' = IF imgs = {} THEN si + 1 ELSE si
    /\ UNCHANGED <<pc, rc, err, fs0, dry_run, yaml, main_cfg, main_names, new_names,
                   merged_names, new_to_merged, summary, planned_ops, plan_remapped,
                   oi, log>>

\* main, lines 133-181: one image of the listing (os.listdir gives no order):
\* its destination name, its label's planning remap, the planned operation.
PlanImage ==
    /\ pc = "plan"
    /\ listing # {}
    /\ \E img_name \in listing :
         LET subset == Subsets[si]
             src_img == Path(NewDir(subset, "images"), img_name)
             dst_img_name == ResolveDst(fs.files, MainDir(subset, "images"), img_name)
             dst_img == Path(MainDir(subset, "images"), dst_img_name)
             src_lbl == Path(NewDir(subset, "labels"), LabelName(img_name))
             dst_lbl == Path(MainDir(subset, "labels"), LabelName(dst_img_name))
             has_lbl == src_lbl \in DOMAIN fs.files
             remapped == IF has_lbl
                         THEN [some |-> TRUE,
                               lines |-> RemapPlan(fs.files[src_lbl], new_to_merged,
                                                   Len(merged_names))]
                         ELSE [some |-> FALSE, lines |-> <<>>]
             counted == Put(summary, <<subset, "images">>,
                            GetOr(summary, <<subset, "images">>, 0) + 1)
         IN /\ planned_ops' = Append(planned_ops,
                                     [src_img |-> src_img, dst_img |-> dst_img,
                                      src_lbl |-> IF has_lbl THEN src_lbl ELSE None,
                                      dst_lbl |-> IF remapped.some THEN dst_lbl ELSE None])
            /\ plan_remapped' = Append(plan_remapped, remapped)
            /\ summary' = IF remapped.some
                          THEN Put(counted, <<subset, "labels">>,
                                   GetOr(counted, <<subset, "labels">>, 0) + 1)
                          ELSE counted
            /\ listing' = listing \ {img_name}
            /\ si' = IF listing = {img_name} THEN si + 1 ELSE si
    /\ UNCHANGED <<pc, rc, err, fs, fs0, dry_run, yaml, main_cfg, main_names, new_names,
                   merged_names, new_to_merged, oi, log>>

\* main, lines 183-202: the report; a dry run returns 0 here.
Report ==
    /\ pc = "plan"
    /\ listing = {}
    /\ si > Len(Subsets)
    /\ IF dry_run
       THEN pc' = "done" /\ rc' = 0
       ELSE pc' = "backup" /\ rc' = rc
    /\ UNCHANGED <<err, fs, fs0, dry_run, yaml, main_cfg, main_names, new_names,
                   merged_names, new_to_merged, summary, planned_ops, plan_remapped,
                   si, listing, oi, log>>

BackupIgnoringFailure ==
    /\ pc = "backup"
    /\ \E outcome \in {"copied", "failed"} :
         /\ fs' = IF outcome = "copied"
                  THEN [fs EXCEPT !.data_yaml_bak = fs.data_yaml]
                  ELSE fs
         /\ log' = Append(log, [kind |-> IF outcome = "copied" THEN "backup"
                                         ELSE "backup_failed",
                                op |-> 0, path |-> DataYamlBak, data |-> <<>>])
    /\ pc' = "apply"
    /\ UNCHANGED <<rc, err, fs0, dry_run, yaml, main_cfg, main_names, new_names,
                   merged_names, new_to_merged, summary, planned_ops, plan_remapped,
                   si, listing, oi>>

\* main, lines 206-209: shutil.copy2(data.yaml, data.yaml.bak); the exception of
\* a copy that fails ends the run, with data.yaml.bak untouched or cut short.
Backup ==
    /\ pc = "backup"
    /\ \E outcome \in {"copied", "failed", "failed_partial"} :
         /\ fs' = CASE outcome = "copied" -> [fs EXCEPT !.data_yaml_bak = fs.data_yaml]
                    [] outcome = "failed" -> fs
                    [] outcome = "failed_partial" ->
                         [fs EXCEPT !.data_yaml_bak = [exists |-> TRUE, map |-> <<>>]]
         /\ log' = Append(log, [kind |-> IF outcome = "copied" THEN "backup"
                                         ELSE "backup_failed",
                                op |-> 0, path |-> DataYamlBak, data |-> <<>>])
         /\ pc' = IF outcome = "copied" THEN "apply" ELSE "crashed"
         /\ err' = IF outcome = "copied" THEN err ELSE "OSError"
    /\ UNCHANGED <<rc, fs0, dry_run, yaml, main_cfg, main_names, new_names,
                   merged_names, new_to_merged, summary, planned_ops, plan_remapped,
                   si, listing, oi>>

\* main, lines 212-227: one planned operation: the image is copied, then the
\* label is read and remapped again and written.  A copy that fails, or a class
\* id int() refuses, raises and ends the run.
ApplyOp ==
    /\ pc = "apply"
    /\ oi <= Len(planned_ops)
    /\ LET op == planned_ops[oi]
           copy == [kind |-> "copy", op |-> oi, path |-> op.dst_img,
                    data |-> fs.files[op.src_img]]
           files1 == Put(fs.files, op.dst_img, fs.files[op.src_img])
       IN \E copied \in BOOLEAN :
            IF ~copied
            THEN /\ pc' = "crashed"
                 /\ err' = "OSError"
                 /\ UNCHANGED <<fs, oi, log>>
            ELSE IF op.src_lbl # None /\ op.dst_lbl # None
                 THEN LET r == RemapApply(fs.files[op.src_lbl], new_to_merged) IN
                      IF r.raised
                      THEN /\ pc' = "crashed"
                           /\ err' = "ValueError"
                           /\ fs' = [fs EXCEPT !.files = files1]
                           /\ log' = Append(log, copy)
                           /\ oi' = oi
                      ELSE /\ fs' = [fs EXCEPT !.files = Put(files1, op.dst_lbl, r.lines)]
                           /\ log' = log \o <<copy, [kind |-> "label", op |-> oi,
                                                     path |-> op.dst_lbl, data |-> r.lines]>>
                           /\ oi' = oi + 1
                           /\ UNCHANGED <<pc, err>>
                 ELSE /\ fs' = [fs EXCEPT !.files = files1]
                      /\ log' = Append(log, copy)
                      /\ oi' = oi + 1
                      /\ UNCHANGED <<pc, err>>
    /\ UNCHANGED <<rc, fs0, dry_run, yaml, main_cfg, main_names, new_names,
                   merged_names, new_to_merged, summary, planned_ops, plan_remapped,
                   si, listing>>

\* main, lines 229-249: data.yaml is overwritten with the merged nc and names.
WriteYaml ==
    /\ pc = "apply"
    /\ oi > Len(planned_ops)
    /\ fs' = [fs EXCEPT !.data_yaml =
                 [exists |-> TRUE, map |-> DumpYaml(main_cfg, merged_names, yaml)]]
    /\ log' = Append(log, [kind |-> "yaml", op |-> 0, path |-> DataYaml, data |-> <<>>])
    /\ pc' = "done"
    /\ rc' = 0
    /\ UNCHANGED <<err, fs0, dry_run, yaml, main_cfg, main_names, new_names,
                   merged_names, new_to_merged, summary, planned_ops, plan_remapped,
                   si, listing, oi>>

Next ==
    \/ Load
    \/ PlanSubset
    \/ PlanImage
    \/ Report
    \/ Backup
    \/ ApplyOp
    \/ WriteYaml

\* ------------------------------------------------------- specifications
\* Runs over the layouts of the split directories: which splits new/ holds,
\* which main directories exist, the incoming images and labels, and the files
\* the main train split already holds.
FilesInputs ==
    {[BaseInput EXCEPT !.dry_run = d, !.new_splits = ns, !.main_dirs = md,
                       !.incoming = inc, !.labelled = lab,
                       !.dst_images = di, !.dst_labels = dl] :
        d \in BOOLEAN,
        ns \in {{"train"}, {"valid"}, {"train", "test"}},
        md \in {{MainDir("train", "images"), MainDir("train", "labels")},
                {MainDir("train", "images")}, {}},
        inc \in SetsUpTo({Img, Img1, ImgPng, ImgUpper, Notes}, MaxImages),
        lab \in SUBSET {<<"img">>, <<"img", "1">>},
        di \in SUBSET {Prefixed(Img), Suffixed(Img, 1)},
        dl \in SUBSET {LabelName(Prefixed(Img))}}

Init == \E in \in FilesInputs : Start(in)

Spec == Init /\ [][Next]_vars

\* Runs over the pairs of class-name lists, with and without new/data.yaml and
\* the YAML library, on a label file whose lines name the classes 0, 1 and 2.
TaxonomyLines ==
    <<Line("0"), <<"1", "0.5">>, Line("1"), <<>>, Line("+1"), Line("7"),
      Line("2") \o <<"0.9">>>>

TaxonomyInputs ==
    {[BaseInput EXCEPT !.main_names = m, !.new_names = n, !.dry_run = d,
                       !.has_new_yaml = h, !.yaml_lib = y, !.lines = TaxonomyLines] :
        m \in SeqsUpTo(ClassNames, MaxNames), n \in SeqsUpTo(ClassNames, MaxNames),
        d \in BOOLEAN, h \in BOOLEAN, y \in BOOLEAN}

InitTaxonomy == \E in \in TaxonomyInputs : Start(in)

SpecTaxonomy == InitTaxonomy /\ [][Next]_vars

\* Runs over the label files: well-formed lines of classes in and out of every
\* range, class tokens int() refuses, short lines and blank lines.
LabelLines ==
    {Line(c) : c \in {"0", "1", "2", "5", "-1", "+1", "x", "1.0"}}
    \cup {<<"0", "0.5">>, <<>>, Line("1") \o <<"0.9">>}

LabelInputs ==
    {[BaseInput EXCEPT !.lines = ls, !.dry_run = d, !.has_new_yaml = h] :
        ls \in SeqsUpTo(LabelLines, MaxLines), d \in BOOLEAN, h \in BOOLEAN}

InitLabels == \E in \in LabelInputs : Start(in)

SpecLabels == InitLabels /\ [][Next]_vars

\* Runs over the descriptors: the keys of data.yaml beside nc and names, an
\* older data.yaml.bak, the YAML library, the structural preconditions.
DescriptorInputs ==
    {[BaseInput EXCEPT !.extra = x, !.old_bak = b, !.yaml_lib = y, !.dry_run = d,
                       !.has_main_yaml = hm, !.has_new_dir = hn,
                       !.incoming = inc, !.lines = ls] :
        x \in SUBSET {"path", "train", "val"}, b \in BOOLEAN, y \in BOOLEAN,
        d \in BOOLEAN, hm \in BOOLEAN, hn \in BOOLEAN,
        inc \in SetsUpTo({Img, Img1}, MaxImages),
        ls \in {<<Line("0")>>, <<Line("1"), Line("x")>>}}

InitDescriptor == \E in \in DescriptorInputs : Start(in)

SpecDescriptor == InitDescriptor /\ [][Next]_vars

\* ----------------------------------------------------------------- claims
Elems(s) == {s[i] : i \in 1..Len(s)}

\* The planned ops that carry a label, and apply's label writes.
LabelledOps == {j \in 1..Len(planned_ops) : plan_remapped[j].some}

LabelWrites == {i \in 1..Len(log) : log[i].kind = "label"}

FileWrites == {i \in 1..Len(log) : log[i].kind \in {"copy", "label"}}

\* The lines main() reads from the source label file of planned op j.
SourceLines(j) == ReadLines(fs0.files[planned_ops[j].src_lbl])

\* The class id of an emitted line.
ClassOf(ln) == ParseInt(ln[1]).val

\* A well-formed line whose class id is an index of new_names.
InNewRange(ln) ==
    /\ Len(ln) >= 5
    /\ ParseInt(ln[1]).ok
    /\ ClassOf(ln) \in 0..(Len(new_names) - 1)

\* What C5 asks of the line `out` emitted for the in-range input line `ln`.
NamePreserved(ln, out) ==
    /\ Len(out) >= 1
    /\ ParseInt(out[1]).ok
    /\ ClassOf(out) \in 0..(Len(merged_names) - 1)
    /\ merged_names[ClassOf(out) + 1] = new_names[ClassOf(ln) + 1]
    /\ Tail(out) = Tail(ln)

\* C1: once main() has built merged_names, its length is len(main_names) plus
\* the number of distinct names of new_names that are not in main_names, and
\* merged_names[i] == main_names[i] at every index of main_names.
C1_MergedKeepsMainIndices ==
    pc \notin {"start", "exit"} =>
        /\ Len(merged_names) =
               Len(main_names) + Cardinality(Elems(new_names) \ Elems(main_names))
        /\ \A i \in 1..Len(main_names) : merged_names[i] = main_names[i]

\* A finished run where some new name was already a main name and some other
\* new name was appended.
C1_Witness ==
    /\ pc = "done"
    /\ Len(main_names) > 0
    /\ Len(merged_names) > Len(main_names)
    /\ Len(merged_names) < Len(main_names) + Len(new_names)

\* C2: a dry run leaves the filesystem as it found it.
C2_DryRunMutatesNothing == dry_run => fs = fs0

\* C3: no two planned operations have the same destination image path, and no
\* two have the same destination label path.
C3_DestinationsDistinct ==
    \A i, j \in 1..Len(planned_ops) :
        i < j =>
            /\ planned_ops[i].dst_img # planned_ops[j].dst_img
            /\ (planned_ops[i].dst_lbl # None /\ planned_ops[j].dst_lbl # None)
                   => planned_ops[i].dst_lbl # planned_ops[j].dst_lbl

\* C4: every line the planning remap keeps, and every line apply writes to a
\* destination label file, has a class id in [0, len(merged_names)).
C4_KeptIdsInMergedRange ==
    /\ \A j \in LabelledOps : \A ln \in Elems(plan_remapped[j].lines) :
           ClassOf(ln) \in 0..(Len(merged_names) - 1)
    /\ \A i \in LabelWrites : \A ln \in Elems(log[i].data) :
           ClassOf(ln) \in 0..(Len(merged_names) - 1)

\* C5: the remap table is total over [0, len(new_names)), and for every
\* well-formed source line with class id c in that range, the line emitted for
\* it (by the planning pass, and by apply into the destination label file) has
\* a class id r with merged_names[r] == new_names[c] and the same other tokens.
C5_RemapPreservesNames ==
    /\ pc \notin {"start", "exit"} => DOMAIN new_to_merged = 0..(Len(new_names) - 1)
    /\ \A j \in LabelledOps : \A i \in 1..Len(SourceLines(j)) :
           InNewRange(SourceLines(j)[i]) =>
               LET pos == Cardinality({k \in 1..i :
                              PlanLine(SourceLines(j)[k], new_to_merged,
                                       Len(merged_names)) # Drop})
               IN /\ pos \in 1..Len(plan_remapped[j].lines)
                  /\ NamePreserved(SourceLines(j)[i], plan_remapped[j].lines[pos])
    /\ \A w \in LabelWrites : \A i \in 1..Len(SourceLines(log[w].op)) :
           InNewRange(SourceLines(log[w].op)[i]) =>
               LET pos == Cardinality({k \in 1..i :
                              ApplyLine(SourceLines(log[w].op)[k], new_to_merged) # Drop})
               IN /\ pos \in 1..Len(log[w].data)
                  /\ NamePreserved(SourceLines(log[w].op)[i], log[w].data[pos])

\* An applied run that wrote a label file with an in-range line whose class id
\* the remap changed.
C5_Witness ==
    /\ pc = "done"
    /\ \E w \in LabelWrites : \E ln \in Elems(SourceLines(log[w].op)) :
           /\ InNewRange(ln)
           /\ new_to_merged[ClassOf(ln)] # ClassOf(ln)

\* C6: every image copy, label write and descriptor overwrite comes after the
\* backup; after a backup that failed there is none of them; and once the
\* descriptor is overwritten, data.yaml.bak holds the descriptor of the start.
C6_BackupBeforeWrites ==
    /\ \A i \in 1..Len(log) :
           log[i].kind \in {"copy", "label", "yaml"} =>
               \E j \in 1..(i - 1) : log[j].kind = "backup"
    /\ (\E i \in 1..Len(log) : log[i].kind = "backup_failed") =>
           /\ \A i \in 1..Len(log) : log[i].kind \notin {"copy", "label", "yaml"}
           /\ fs.files = fs0.files
           /\ fs.data_yaml = fs0.data_yaml
    /\ (fs.data_yaml # fs0.data_yaml \/ \E i \in 1..Len(log) : log[i].kind = "yaml") =>
           fs.data_yaml_bak = fs0.data_yaml

\* An applied run that copied an image, wrote a label, changed the descriptor
\* and replaced an older data.yaml.bak.
C6_Witness ==
    /\ pc = "done"
    /\ fs.data_yaml # fs0.data_yaml
    /\ fs0.data_yaml_bak.exists
    /\ fs.data_yaml_bak # fs0.data_yaml_bak
    /\ \E i, j \in 1..Len(log) : log[i].kind = "copy" /\ log[j].kind = "label"

\* C7: the lines apply writes to a destination label file are the lines the
\* planning pass computed for that planned operation.
C7_ApplyWritesPlannedLines ==
    \A w \in LabelWrites : log[w].data = plan_remapped[log[w].op].lines

\* C8: a label line that is short, or whose class id does not parse, never ends
\* the run.
C8_BadLineNeverAborts == ~(pc = "crashed" /\ err = "ValueError")

\* C9: the rewritten descriptor has nc == len(merged_names), names ==
\* merged_names, and every other key of the original with its original value.
C9_OtherKeysPreserved ==
    (pc = "done" /\ ~dry_run) =>
        /\ fs.data_yaml.map["nc"] = Len(merged_names)
        /\ fs.data_yaml.map["names"] = merged_names
        /\ \A k \in DOMAIN fs0.data_yaml.map \ {"nc", "names"} :
               /\ k \in DOMAIN fs.data_yaml.map
               /\ fs.data_yaml.map[k] = fs0.data_yaml.map[k]

\* C10: apply writes no image and no label to a path that held a file when the
\* run started.
C10_NoPreexistingFileOverwritten ==
    \A i \in FileWrites : log[i].path \notin DOMAIN fs0.files
====
